---- MODULE Spec2Model ----
(***************************************************************************)
(* Model of awslimitchecker/trustedadvisor.py: class TrustedAdvisor.        *)
(*                                                                         *)
(* One TrustedAdvisor object, one caller.  The caller invokes connect()    *)
(* and update_limits(services); the Support API (boto) and the service     *)
(* objects are the environment.  Python dicts are association lists that   *)
(* keep insertion order; None is the empty tuple and a present value x is  *)
(* the one-element tuple <<x>>; str values that are compared for order or  *)
(* parsed are tuples of one-character strings.                             *)
(***************************************************************************)
EXTENDS Integers, Sequences, FiniteSets, TLC

VARIABLES
    conn,          \* self.conn: None or <<[id, region]>>
    connectCalls,  \* number of boto.connect_support() invocations so far
    call,          \* the public method the caller is in / was last in
    pc,            \* position inside that method
    outcome,       \* how the last public method ended
    services,      \* the `services` argument: name -> (limit name -> TA limit)
    checks,        \* _get_limit_check_id: the list of checks the API returned
    tmp,           \* _poll: result of _get_limit_check_id
    flagged,       \* _poll: checks['result']['flaggedResources']
    ta_results,    \* update_limits: result of _poll
    svcQueue,      \* _update_services: service names still to visit
    svc_name,      \* _update_services: current service name
    limQueue,      \* _update_services: limit names still to visit
    trace          \* API requests and _set_ta_limit calls of this public call

vars == <<conn, connectCalls, call, pc, outcome, services, checks, tmp,
          flagged, ta_results, svcQueue, svc_name, limQueue, trace>>

----
\* Bounds of the model.
MaxConnects == 2   \* boto.connect_support() invocations explored
MaxChecks == 3     \* checks in one answer of describe_trusted_advisor_checks
MaxRows == 2       \* flagged resources in one answer of the API, under Spec
MaxPollRows == 3   \* flagged resources handed to the loop of _poll, under SpecPoll
MaxEntries == 3    \* rows behind the map handed to _update_services, under SpecUpdate

----
\* Python values.
None == <<>>
Some(x) == <<x>>

\* str values as tuples of characters.
EBS == <<"E", "B", "S">>
EC2 == <<"E", "C", "2">>
GP2 == <<"G", "P", "2">>
GW == <<"G", "W">>

ServiceNames == {EBS, EC2}
LimitNames == {GP2, GW}
Amounts == {<<"5">>, <<"2", "0">>, <<"x">>}
Regions == {"us-east-1", "eu-west-1"}

\* Code points of the characters used in names.
Ord(c) ==
    CASE c = "2" -> 50
      [] c = "B" -> 66
      [] c = "C" -> 67
      [] c = "E" -> 69
      [] c = "G" -> 71
      [] c = "P" -> 80
      [] c = "S" -> 83
      [] c = "W" -> 87

\* str.__lt__: lexicographic order on code points, a proper prefix is smaller.
RECURSIVE StrLess(_, _)
StrLess(a, b) ==
    IF b = <<>> THEN FALSE
    ELSE IF a = <<>> THEN TRUE
    ELSE IF Ord(Head(a)) # Ord(Head(b)) THEN Ord(Head(a)) < Ord(Head(b))
    ELSE StrLess(Tail(a), Tail(b))

\* Insert x into the ascending list s.
RECURSIVE Insert(_, _)
Insert(x, s) ==
    IF s = <<>> THEN <<x>>
    ELSE IF StrLess(x, Head(s)) THEN <<x>> \o s
    ELSE <<Head(s)>> \o Insert(x, Tail(s))

\* sorted(keys)
RECURSIVE Sorted(_)
Sorted(s) == IF s = <<>> THEN <<>> ELSE Insert(Head(s), Sorted(Tail(s)))

----
\* dict as an association list <<key, value>> in insertion order.
DictKeys(d) == [i \in 1..Len(d) |-> d[i][1]]
DictHas(d, k) == \E i \in 1..Len(d) : d[i][1] = k
DictGet(d, k) == d[CHOOSE i \in 1..Len(d) : d[i][1] = k][2]

\* d[k] = v: an existing key keeps its place, a new key goes last.
DictSet(d, k, v) ==
    IF DictHas(d, k)
    THEN [i \in 1..Len(d) |-> IF d[i][1] = k THEN <<k, v>> ELSE d[i]]
    ELSE Append(d, <<k, v>>)

\* dict(zip(keys, values)): pairs up to the shorter list, later pairs win.
RECURSIVE Zip(_, _)
Zip(keys, values) ==
    IF keys = <<>> \/ values = <<>> THEN <<>>
    ELSE LET n == IF Len(keys) < Len(values) THEN Len(keys) ELSE Len(values)
             front == Zip(SubSeq(keys, 1, n - 1), SubSeq(values, 1, n - 1))
         IN DictSet(front, keys[n], values[n])

----
\* int(str): optional surrounding blanks, optional sign, decimal digits.
DigitChars == <<"0", "1", "2", "3", "4", "5", "6", "7", "8", "9">>
IsDigit(c) == \E i \in 1..Len(DigitChars) : DigitChars[i] = c
DigitVal(c) == (CHOOSE i \in 1..Len(DigitChars) : DigitChars[i] = c) - 1

RECURSIVE StripLeft(_)
StripLeft(s) ==
    IF s # <<>> /\ Head(s) = " " THEN StripLeft(Tail(s)) ELSE s

RECURSIVE StripRight(_)
StripRight(s) ==
    IF s # <<>> /\ s[Len(s)] = " " THEN StripRight(SubSeq(s, 1, Len(s) - 1)) ELSE s

RECURSIVE DigitsValue(_)
DigitsValue(s) ==
    IF s = <<>> THEN 0
    ELSE 10 * DigitsValue(SubSeq(s, 1, Len(s) - 1)) + DigitVal(s[Len(s)])

\* [ok |-> TRUE, val |-> n], or [ok |-> FALSE, val |-> 0] for ValueError.
int(s) ==
    LET t == StripRight(StripLeft(s))
        signed == t # <<>> /\ Head(t) \in {"+", "-"}
        digits == IF signed THEN Tail(t) ELSE t
    IN IF digits # <<>> /\ \A i \in 1..Len(digits) : IsDigit(digits[i])
       THEN [ok |-> TRUE,
             val |-> IF signed /\ Head(t) = "-"
                     THEN 0 - DigitsValue(digits) ELSE DigitsValue(digits)]
       ELSE [ok |-> FALSE, val |-> 0]

----
\* The Support API's answers.
Schema1 == <<"Region", "Service", "Limit Name", "Limit Amount", "Current Usage", "Status">>
Schema2 == <<"Service", "Limit Amount", "Region", "Limit Name">>

CheckDomain == {
    [id |-> "c1", category |-> "performance", name |-> "Service Limits", metadata |-> Schema1],
    [id |-> "c2", category |-> "performance", name |-> "Service Limits", metadata |-> Schema2],
    [id |-> "c3", category |-> "performance", name |-> "service limits", metadata |-> Schema1],
    [id |-> "c4", category |-> "security", name |-> "Service Limits", metadata |-> Schema1],
    [id |-> "c5", category |-> "fault_tolerance", name |-> "ELB Listener Security", metadata |-> Schema2]}

SeqsUpTo(S, n) == UNION {[1..k -> S] : k \in 0..n}

CheckLists == SeqsUpTo(CheckDomain, MaxChecks)

\* One flagged resource: the API lays the columns out after the check's schema.
FieldValue(field, region, service, limit, amount) ==
    CASE field = "Region" -> region
      [] field = "Service" -> service
      [] field = "Limit Name" -> limit
      [] field = "Limit Amount" -> amount
      [] OTHER -> "-"

FlaggedResource(schema, region, service, limit, amount) ==
    [region |-> region,
     metadata |-> [i \in 1..Len(schema) |->
                      FieldValue(schema[i], region, service, limit, amount)]]

FlaggedDomain(schema) ==
    {FlaggedResource(schema, r, s, l, a) :
        r \in Regions, s \in ServiceNames, l \in LimitNames, a \in Amounts}

FlaggedLists(schema, n) == SeqsUpTo(FlaggedDomain(schema), n)

\* The schema the API uses for the results of check `id`.
SchemaOf(id) == (CHOOSE c \in CheckDomain : c.id = id).metadata

\* The caller's registries: the services in K, each recognising the limits L.
Registry(K, L) == [s \in K |-> [l \in L |-> None]]
ServicesChoices ==
    {Registry(K, LimitNames) : K \in (SUBSET ServiceNames) \ {{}}}
    \cup {Registry(ServiceNames, L) : L \in (SUBSET LimitNames) \ {{}}}

----
\* Events of `trace`.
Event(op, arg, ok) == [op |-> op, arg |-> arg, ok |-> ok]

Returned == [status |-> "returned", error |-> "", at |-> ""]
Raised(error, at) == [status |-> "raised", error |-> error, at |-> at]
Running == [status |-> "running", error |-> "", at |-> ""]

Init ==
    /\ conn = None
    /\ connectCalls = 0
    /\ call = ""
    /\ pc = "idle"
    /\ outcome = [status |-> "none", error |-> "", at |-> ""]
    /\ services = Registry({}, {})
    /\ checks = <<>>
    /\ tmp = None
    /\ flagged = <<>>
    /\ ta_results = None
    /\ svcQueue = <<>>
    /\ svc_name = <<>>
    /\ limQueue = <<>>
    /\ trace = <<>>

----
\* A connect() that establishes a session on every call.
NeedsConnectAlways(c) == TRUE

\* connect(), line 55: a session is established only when there is none.
NeedsConnect(c) == c = None

\* connect(): the effect of one call when boto.connect_support() answers `ok`
\* with a session in region `r`.
connect(ok, r) ==
    IF NeedsConnect(conn)
    THEN [conn |-> IF ok THEN Some([id |-> connectCalls + 1, region |-> r]) ELSE conn,
          calls |-> connectCalls + 1,
          raised |-> ~ok]
    ELSE [conn |-> conn, calls |-> connectCalls, raised |-> FALSE]

\* A locator that looks at the name only.
IsLimitCheckByName(check) == check.name = "Service Limits"

\* _get_limit_check_id, lines 124-127.
IsLimitCheck(check) ==
    check.category = "performance" /\ check.name = "Service Limits"

\* _get_limit_check_id, lines 123-135: the first matching check, or None.
RECURSIVE get_limit_check_id(_)
get_limit_check_id(cs) ==
    IF cs = <<>> THEN None
    ELSE IF IsLimitCheck(Head(cs))
         THEN Some([id |-> Head(cs).id, metadata |-> Head(cs).metadata])
         ELSE get_limit_check_id(Tail(cs))

\* _poll, line 91.
CheckMissing(t) == t = None

\* A poll that asks for a check identifier written into the code.
FetchIdFixed(t) == "c1"

\* _poll, lines 95 and 97: the identifier the result is asked for.
FetchId(t) == t[1].id

\* A poll without the region filter.
RegionMatchesAny(check, region) == TRUE

\* _poll, line 103: a row is kept when its region is the session's.
RegionMatches(check, region) == check.region = region

\* A parse that turns a malformed Limit Amount into 0 instead of raising.
LimitAmountLenient(data) ==
    [ok |-> TRUE, val |-> int(DictGet(data, "Limit Amount")).val]

\* _poll, line 108: the parse of the row's Limit Amount.
LimitAmount(data) == int(DictGet(data, "Limit Amount"))

\* A store that keeps the first value seen for a (service, limit) pair.
StoreLimitOnce(res, service, limit, amount) ==
    LET res1 == IF DictHas(res, service) THEN res ELSE DictSet(res, service, <<>>)
        inner == DictGet(res1, service)
    IN IF DictHas(inner, limit) THEN res1
       ELSE DictSet(res1, service, DictSet(inner, limit, amount))

\* _poll, lines 106-108: res[Service][Limit Name] = amount.
StoreLimit(res, service, limit, amount) ==
    LET res1 == IF DictHas(res, service) THEN res ELSE DictSet(res, service, <<>>)
    IN DictSet(res1, service, DictSet(DictGet(res1, service), limit, amount))

\* _poll, lines 101-110: the loop over the flagged resources.
\* [ok |-> TRUE, res |-> the map], or ok |-> FALSE when int() raised.
RECURSIVE poll(_, _, _, _)
poll(rows, region, metadata, res) ==
    IF rows = <<>> THEN [ok |-> TRUE, res |-> res]
    ELSE LET check == Head(rows)
             data == Zip(metadata, check.metadata)
             amount == LimitAmount(data)
         IN IF ~RegionMatches(check, region)
            THEN poll(Tail(rows), region, metadata, res)
            ELSE IF ~amount.ok
                 THEN [ok |-> FALSE, res |-> res]
                 ELSE poll(Tail(rows), region, metadata,
                           StoreLimit(res, DictGet(data, "Service"),
                                      DictGet(data, "Limit Name"), amount.val))

\* An iteration in the dict's own order.
SortedKeysUnsorted(d) == DictKeys(d)

\* _update_services, lines 149 and 156: sorted(d.keys()).
SortedKeys(d) == Sorted(DictKeys(d))

\* A `break` in place of the `continue`.
SkipServiceBreak(queue) == <<>>

\* _update_services, line 154: `continue` after an unknown service.
SkipService(queue) == Tail(queue)

\* A loop body without the try/except.
CatchesNothing(error) == FALSE

\* _update_services, line 159: the exceptions the loop body catches.
Catches(error) == error = "ValueError"

\* service._set_ta_limit(lim_name, value): "" when accepted, else the error.
SetTaLimitError(service, lim_name) ==
    IF lim_name \in DOMAIN service THEN "" ELSE "ValueError"

----
Locals == <<checks, tmp, flagged, ta_results, svcQueue, svc_name, limQueue>>

\* The caller invokes connect().
Connect ==
    /\ pc = "idle"
    /\ NeedsConnect(conn) => connectCalls < MaxConnects
    /\ \E ok \in BOOLEAN, r \in Regions :
         LET c == connect(ok, r) IN
         /\ conn' = c.conn
         /\ connectCalls' = c.calls
         /\ trace' = <<>>
         /\ outcome' = IF c.raised THEN Raised("BotoServerError", "connect")
                                   ELSE Returned
    /\ call' = "connect"
    /\ UNCHANGED <<pc, services, Locals>>

\* The caller invokes update_limits(services).
UpdateLimits ==
    /\ pc = "idle"
    /\ \E s \in ServicesChoices : services' = s
    /\ call' = "update_limits"
    /\ pc' = "connect"
    /\ outcome' = Running
    /\ trace' = <<>>
    /\ checks' = <<>>
    /\ tmp' = None
    /\ flagged' = <<>>
    /\ ta_results' = None
    /\ svcQueue' = <<>>
    /\ svc_name' = <<>>
    /\ limQueue' = <<>>
    /\ UNCHANGED <<conn, connectCalls>>

\* update_limits, line 70: self.connect().
UpdateLimitsConnect ==
    /\ pc = "connect"
    /\ NeedsConnect(conn) => connectCalls < MaxConnects
    /\ \E ok \in BOOLEAN, r \in Regions :
         LET c == connect(ok, r) IN
         /\ conn' = c.conn
         /\ connectCalls' = c.calls
         /\ outcome' = IF c.raised THEN Raised("BotoServerError", "connect")
                                   ELSE outcome
         /\ pc' = IF c.raised THEN "idle" ELSE "poll"
    /\ UNCHANGED <<call, services, Locals, trace>>

\* _poll, line 90: _get_limit_check_id().
GetLimitCheckId ==
    /\ pc = "poll"
    /\ conn # None
    /\ \/ \E cs \in CheckLists :
            /\ checks' = cs
            /\ tmp' = get_limit_check_id(cs)
            /\ trace' = Append(trace, Event("describe_trusted_advisor_checks", <<"en">>, TRUE))
            /\ pc' = "located"
            /\ UNCHANGED outcome
       \/ /\ trace' = Append(trace, Event("describe_trusted_advisor_checks", <<"en">>, FALSE))
          /\ outcome' = Raised("BotoServerError", "list")
          /\ pc' = "idle"
          /\ UNCHANGED <<checks, tmp>>
    /\ UNCHANGED <<conn, connectCalls, call, services, flagged, ta_results,
                   svcQueue, svc_name, limQueue>>

\* _poll, lines 91-94: no check found, _poll returns None.
PollNotFound ==
    /\ pc = "located"
    /\ CheckMissing(tmp)
    /\ ta_results' = None
    /\ checks' = <<>>
    /\ pc' = "polled"
    /\ UNCHANGED <<conn, connectCalls, call, outcome, services, tmp, flagged,
                   svcQueue, svc_name, limQueue, trace>>

\* _poll, lines 91 and 95: a check was found; _get_limit_check_id's list is gone.
PollFound ==
    /\ pc = "located"
    /\ ~CheckMissing(tmp)
    /\ checks' = <<>>
    /\ pc' = "found"
    /\ UNCHANGED <<conn, connectCalls, call, outcome, services, tmp, flagged,
                   ta_results, svcQueue, svc_name, limQueue, trace>>

\* _poll, line 97: describe_trusted_advisor_check_result(check_id).  The
\* result's timestamp (line 98) is only logged.
DescribeCheckResult ==
    /\ pc = "found"
    /\ LET check_id == FetchId(tmp) IN
       \/ \E rows \in FlaggedLists(SchemaOf(check_id), MaxRows) :
             /\ flagged' = rows
             /\ trace' = Append(trace,
                    Event("describe_trusted_advisor_check_result", <<check_id>>, TRUE))
             /\ pc' = "fetched"
             /\ UNCHANGED outcome
       \/ /\ trace' = Append(trace,
                  Event("describe_trusted_advisor_check_result", <<check_id>>, FALSE))
          /\ outcome' = Raised("BotoServerError", "fetch")
          /\ pc' = "idle"
          /\ UNCHANGED flagged
    /\ UNCHANGED <<conn, connectCalls, call, services, checks, tmp, ta_results,
                   svcQueue, svc_name, limQueue>>

\* _poll, lines 96 and 101-110: build the map and return it.
PollLoop ==
    /\ pc = "fetched"
    /\ LET p == poll(flagged, conn[1].region, tmp[1].metadata, <<>>) IN
       IF p.ok
       THEN /\ ta_results' = Some(p.res)
            /\ pc' = "polled"
            /\ UNCHANGED <<outcome, flagged>>
       ELSE /\ outcome' = Raised("ValueError", "int")
            /\ pc' = "idle"
            /\ flagged' = <<>>
            /\ UNCHANGED ta_results
    /\ UNCHANGED <<conn, connectCalls, call, services, checks, tmp,
                   svcQueue, svc_name, limQueue, trace>>

\* _update_services, line 149: sorted(ta_results.keys()).
UpdateServicesBegin ==
    /\ pc = "polled"
    /\ flagged' = <<>>
    /\ IF ta_results = None
       THEN /\ outcome' = Raised("AttributeError", "update")
            /\ pc' = "idle"
            /\ UNCHANGED svcQueue
       ELSE /\ svcQueue' = SortedKeys(ta_results[1])
            /\ pc' = "services"
            /\ UNCHANGED outcome
    /\ UNCHANGED <<conn, connectCalls, call, services, checks, tmp, ta_results,
                   svc_name, limQueue, trace>>

\* _update_services, lines 149-156: the next service name.
NextService ==
    /\ pc = "services"
    /\ svcQueue # <<>>
    /\ LET name == Head(svcQueue) IN
       IF name \notin DOMAIN services
       THEN /\ svcQueue' = SkipService(svcQueue)
            /\ UNCHANGED <<pc, svc_name, limQueue>>
       ELSE /\ svcQueue' = Tail(svcQueue)
            /\ svc_name' = name
            /\ limQueue' = SortedKeys(DictGet(ta_results[1], name))
            /\ pc' = "limits"
    /\ UNCHANGED <<conn, connectCalls, call, outcome, services, checks, tmp,
                   flagged, ta_results, trace>>

\* _update_services, lines 156-163: service._set_ta_limit(lim_name, value).
SetTaLimit ==
    /\ pc = "limits"
    /\ limQueue # <<>>
    /\ LET lim_name == Head(limQueue)
           value == DictGet(DictGet(ta_results[1], svc_name), lim_name)
           error == SetTaLimitError(services[svc_name], lim_name)
       IN /\ trace' = Append(trace,
                 Event("_set_ta_limit", <<svc_name, lim_name, value>>, error = ""))
          /\ services' = IF error = ""
                         THEN [services EXCEPT ![svc_name][lim_name] = Some(value)]
                         ELSE services
          /\ IF error = "" \/ Catches(error)
             THEN /\ limQueue' = Tail(limQueue)
                  /\ UNCHANGED <<pc, outcome>>
             ELSE /\ outcome' = Raised(error, "update")
                  /\ pc' = "idle"
                  /\ UNCHANGED limQueue
    /\ UNCHANGED <<conn, connectCalls, call, checks, tmp, flagged, ta_results,
                   svcQueue, svc_name>>

\* _update_services, line 156: the limits of this service are exhausted.
LimitsDone ==
    /\ pc = "limits"
    /\ limQueue = <<>>
    /\ pc' = "services"
    /\ UNCHANGED <<conn, connectCalls, call, outcome, services, checks, tmp,
                   flagged, ta_results, svcQueue, svc_name, limQueue, trace>>

\* _update_services, line 164, and the return of update_limits.
UpdateServicesDone ==
    /\ pc = "services"
    /\ svcQueue = <<>>
    /\ pc' = "idle"
    /\ outcome' = Returned
    /\ UNCHANGED <<conn, connectCalls, call, services, checks, tmp, flagged,
                   ta_results, svcQueue, svc_name, limQueue, trace>>

Next ==
    \/ Connect
    \/ UpdateLimits
    \/ UpdateLimitsConnect
    \/ GetLimitCheckId
    \/ PollNotFound
    \/ PollFound
    \/ DescribeCheckResult
    \/ PollLoop
    \/ UpdateServicesBegin
    \/ NextService
    \/ SetTaLimit
    \/ LimitsDone
    \/ UpdateServicesDone

Spec == Init /\ [][Next]_vars

----
\* _poll's loop on its own: the states in which line 96 is reached with a
\* session in HomeRegion and up to MaxPollRows flagged resources, then the loop.
HomeRegion == "us-east-1"

ListedEvent == Event("describe_trusted_advisor_checks", <<"en">>, TRUE)
FetchedEvent(id) == Event("describe_trusted_advisor_check_result", <<id>>, TRUE)

LocatedChoices == {get_limit_check_id(<<c>>) : c \in CheckDomain} \ {None}

InitPoll ==
    /\ conn = Some([id |-> 1, region |-> HomeRegion])
    /\ connectCalls = 1
    /\ call = "update_limits"
    /\ pc = "fetched"
    /\ outcome = Running
    /\ services = Registry(ServiceNames, LimitNames)
    /\ checks = <<>>
    /\ tmp \in LocatedChoices
    /\ flagged \in FlaggedLists(SchemaOf(tmp[1].id), MaxPollRows)
    /\ ta_results = None
    /\ svcQueue = <<>>
    /\ svc_name = <<>>
    /\ limQueue = <<>>
    /\ trace = <<ListedEvent, FetchedEvent(tmp[1].id)>>

NextPoll == PollLoop

SpecPoll == InitPoll /\ [][NextPoll]_vars

----
\* _update_services on its own: every state in which line 72 can be reached
\* with a map built from up to MaxEntries retained rows, then the loops.

RetainedRows ==
    {row \in FlaggedDomain(Schema1) :
        row.region = HomeRegion /\ int(row.metadata[4]).ok}

InitUpdate ==
    /\ conn = Some([id |-> 1, region |-> HomeRegion])
    /\ connectCalls = 1
    /\ call = "update_limits"
    /\ pc = "polled"
    /\ outcome = Running
    /\ services \in ServicesChoices
    /\ checks = <<>>
    /\ svcQueue = <<>>
    /\ svc_name = <<>>
    /\ limQueue = <<>>
    /\ \/ /\ tmp = None
          /\ flagged = <<>>
          /\ ta_results = None
          /\ trace = <<ListedEvent>>
       \/ /\ tmp = Some([id |-> "c1", metadata |-> Schema1])
          /\ flagged \in SeqsUpTo(RetainedRows, MaxEntries)
          /\ ta_results = Some(poll(flagged, HomeRegion, Schema1, <<>>).res)
          /\ trace = <<ListedEvent, FetchedEvent("c1")>>

NextUpdate ==
    \/ UpdateServicesBegin
    \/ NextService
    \/ SetTaLimit
    \/ LimitsDone
    \/ UpdateServicesDone

SpecUpdate == InitUpdate /\ [][NextUpdate]_vars

----
\* Vocabulary of the properties.
IsSetEvent(e) == e.op = "_set_ta_limit"
SetCalls == SelectSeq(trace, IsSetEvent)
EventsOf(op) == {i \in 1..Len(trace) : trace[i].op = op}
Listings == EventsOf("describe_trusted_advisor_checks")
Fetches == EventsOf("describe_trusted_advisor_check_result")
Untouched(reg) == \A s \in DOMAIN reg : \A l \in DOMAIN reg[s] : reg[s][l] = None

\* The flagged resources read column by column, without the dict of line 105.
Column(schema, field) == CHOOSE i \in 1..Len(schema) : schema[i] = field
RowField(row, field) == row.metadata[Column(tmp[1].metadata, field)]
Retained == {i \in 1..Len(flagged) : flagged[i].region = conn[1].region}
InSessionRegion(row) == row.region = conn[1].region
Carries(i, s, l) ==
    RowField(flagged[i], "Service") = s /\ RowField(flagged[i], "Limit Name") = l
HasEntry(res, s, l) == DictHas(res, s) /\ DictHas(DictGet(res, s), l)
EntryOf(res, s, l) == DictGet(DictGet(res, s), l)

\* What the amounts and the names of the model stand for.
AmountValue(a) ==
    CASE a = <<"5">> -> 5
      [] a = <<"2", "0">> -> 20
      [] OTHER -> -1
WellFormed(a) == a \in {<<"5">>, <<"2", "0">>}
NameRank(n) ==
    CASE n = EBS -> 1
      [] n = EC2 -> 2
      [] n = GP2 -> 1
      [] n = GW -> 2

\* The map handed to _update_services, when there is one.
MapServices == {ta_results[1][k][1] : k \in 1..Len(ta_results[1])}
MapLimits(s) ==
    {DictGet(ta_results[1], s)[k][1] : k \in 1..Len(DictGet(ta_results[1], s))}
Finished == pc = "idle" /\ outcome.status \in {"returned", "raised"}

----
\* The check listing of this update_limits call answered and the locator
\* returned None.
NotFoundReported ==
    /\ call = "update_limits"
    /\ tmp = None
    /\ \E i \in Listings : trace[i].ok

\* C1: when the locator reports "not found" during update_limits, the call
\* does not raise, no _set_ta_limit call is made on any service and the
\* registry stays as it was passed in.
C1_AbsentCheckNoOp ==
    NotFoundReported =>
        /\ outcome.status # "raised"
        /\ SetCalls = <<>>
        /\ Untouched(services)

\* A public call that got past connect() has a session, and that session came
\* from the last boto.connect_support() call made.
C2_Connected ==
    (\/ call = "connect" /\ outcome.status = "returned"
     \/ pc \notin {"idle", "connect"})
    => conn # None /\ connectCalls = conn[1].id

\* Once there is a session, no step calls boto.connect_support() or replaces
\* the handle.
C2_SessionKept ==
    conn # None => (conn' = conn /\ connectCalls' = connectCalls)

\* C2: connect() is idempotent.  Over any sequence of connect() and
\* update_limits() calls, a call that gets past connect() has a session; from
\* the first successful boto.connect_support() on, that call is never made
\* again and the session handle is never replaced or reset.
C2_ConnectIdempotent == []C2_Connected /\ [][C2_SessionKept]_vars

\* C2 witness: connect() returned after a whole update_limits had applied a
\* limit, and boto.connect_support() was called once in all.
C2_Witness ==
    /\ call = "connect"
    /\ outcome.status = "returned"
    /\ conn # None
    /\ connectCalls = 1
    /\ ~Untouched(services)

\* The positions of the checks that match both fields, and the answer they
\* call for.
Matching(cs) ==
    {i \in 1..Len(cs) :
        cs[i].category = "performance" /\ cs[i].name = "Service Limits"}

ExpectedCheck(cs) ==
    IF Matching(cs) = {} THEN None
    ELSE LET i == CHOOSE i \in Matching(cs) : \A j \in Matching(cs) : i <= j
         IN Some([id |-> cs[i].id, metadata |-> cs[i].metadata])

\* C3: the locator returns the id and metadata of the first check, in list
\* order, whose category is "performance" and whose name is "Service Limits",
\* and None exactly when no check matches both.
C3_LocatorFirstMatch == pc = "located" => tmp = ExpectedCheck(checks)

\* C3 witness: the match is last in the list, behind a check with only the
\* name right and a check with only the category right.
C3_Witness ==
    /\ pc = "located"
    /\ Len(checks) = 3
    /\ checks[1].name = "Service Limits" /\ checks[1].category # "performance"
    /\ checks[2].category = "performance" /\ checks[2].name # "Service Limits"
    /\ tmp # None
    /\ tmp[1].id = checks[3].id

\* C4: the map _poll returns has an entry for (service, limit) exactly when
\* some flagged resource of the session's region carries that Service and
\* Limit Name; its keys are service and limit names, each once; and it is the
\* map the rows of the session's region give on their own.
C4_RegionFiltering ==
    (pc = "polled" /\ ta_results # None) =>
        LET res == ta_results[1] IN
        /\ res = poll(SelectSeq(flagged, InSessionRegion), conn[1].region,
                      tmp[1].metadata, <<>>).res
        /\ \A s \in ServiceNames, l \in LimitNames :
              HasEntry(res, s, l) <=> \E i \in Retained : Carries(i, s, l)
        /\ \A k \in 1..Len(res) :
              /\ res[k][1] \in ServiceNames
              /\ \A j \in 1..Len(res) : res[j][1] = res[k][1] => j = k
              /\ res[k][2] # <<>>
              /\ \A m \in 1..Len(res[k][2]) :
                    /\ res[k][2][m][1] \in LimitNames
                    /\ \A n \in 1..Len(res[k][2]) :
                          res[k][2][n][1] = res[k][2][m][1] => n = m

\* C4 witness: a row of the session's region made an entry, and a row of
\* another region carries a pair that has no entry.
C4_Witness ==
    /\ pc = "polled"
    /\ ta_results # None
    /\ \E i \in Retained : \E j \in (1..Len(flagged)) \ Retained :
          \E s \in ServiceNames, l \in LimitNames :
             /\ Carries(j, s, l)
             /\ ~Carries(i, s, l)
             /\ ~HasEntry(ta_results[1], s, l)
             /\ j < i

\* C5: every entry of the map _poll returns holds the integer value of the
\* Limit Amount of the last retained row carrying its Service and Limit Name.
C5_LastWriteWins ==
    (pc = "polled" /\ ta_results # None) =>
        \A s \in ServiceNames, l \in LimitNames :
            HasEntry(ta_results[1], s, l) =>
                \E i \in Retained :
                    /\ Carries(i, s, l)
                    /\ \A j \in Retained : Carries(j, s, l) => j <= i
                    /\ EntryOf(ta_results[1], s, l) =
                          AmountValue(RowField(flagged[i], "Limit Amount"))

\* C5 witness: two retained rows carry one pair with different amounts, and a
\* retained row of another pair lies between them.
C5_Witness ==
    /\ pc = "polled"
    /\ ta_results # None
    /\ Retained = {1, 2, 3}
    /\ \E s \in ServiceNames, l \in LimitNames :
          /\ Carries(1, s, l)
          /\ Carries(3, s, l)
          /\ ~Carries(2, s, l)
          /\ RowField(flagged[1], "Limit Amount") # RowField(flagged[3], "Limit Amount")

\* The map names a service the registry does not have.
UnknownServiceInMap ==
    ta_results # None /\ \E s \in MapServices : s \notin DOMAIN services

\* C6: when the map names a service the registry does not have, reconciliation
\* does not raise and calls _set_ta_limit on no limit of that service; when it
\* has finished, every limit of every service of the map that the registry has
\* was passed to _set_ta_limit with the map's value.

C6_UnknownServiceSkipped ==
    UnknownServiceInMap =>
        /\ outcome.status # "raised"
        /\ \A i \in 1..Len(SetCalls) : SetCalls[i].arg[1] \in DOMAIN services
        /\ Finished =>
              \A s \in MapServices \cap DOMAIN services : \A l \in MapLimits(s) :
                  \E i \in 1..Len(SetCalls) :
                      SetCalls[i].arg = <<s, l, EntryOf(ta_results[1], s, l)>>

\* C6 witness: reconciliation finished on a map whose first service in sorted
\* order is unknown and whose last is known.
C6_Witness ==
    /\ Finished
    /\ ta_results # None
    /\ MapServices = {EBS, EC2}
    /\ DOMAIN services = {EC2}
    /\ Len(SetCalls) = 2

\* The map names a limit that its service, a known one, does not recognise.
RejectedLimitInMap ==
    /\ ta_results # None
    /\ \E s \in MapServices \cap DOMAIN services :
          \E l \in MapLimits(s) : l \notin DOMAIN services[s]

\* C7: when a known service rejects a limit name, reconciliation does not
\* raise; when it has finished, every limit of every known service of the map
\* was passed to _set_ta_limit exactly once, and all but the rejected ones
\* are applied.

C7_UnknownLimitSkipped ==
    RejectedLimitInMap =>
        /\ outcome.status # "raised"
        /\ Finished =>
              \A s \in MapServices \cap DOMAIN services : \A l \in MapLimits(s) :
                  LET value == EntryOf(ta_results[1], s, l)
                      made == {i \in 1..Len(SetCalls) : SetCalls[i].arg = <<s, l, value>>}
                  IN /\ Cardinality(made) = 1
                     /\ l \in DOMAIN services[s] => services[s][l] = Some(value)

\* C7 witness: a rejected limit, then an accepted limit of the same service,
\* then a limit of a later service.
C7_Witness ==
    /\ Finished
    /\ outcome.status = "returned"
    /\ Len(SetCalls) = 3
    /\ ~SetCalls[1].ok
    /\ SetCalls[2].ok
    /\ SetCalls[2].arg[1] = SetCalls[1].arg[1]
    /\ SetCalls[3].arg[1] # SetCalls[1].arg[1]

\* Call a comes before call b in (service name, limit name) order.
CallBefore(a, b) ==
    \/ NameRank(a[1]) < NameRank(b[1])
    \/ a[1] = b[1] /\ NameRank(a[2]) < NameRank(b[2])

\* C8: the _set_ta_limit calls of reconciliation are made in strictly
\* ascending order of service name and, within a service, of limit name,
\* whatever the insertion order of the map; so the calls of one service are
\* contiguous.

C8_SortedOrder ==
    \A i \in 1..Len(SetCalls) : \A j \in 1..Len(SetCalls) :
        i < j => CallBefore(SetCalls[i].arg, SetCalls[j].arg)

\* C8 witness: the map's services and limits were inserted in descending
\* order, and three calls were made.
C8_Witness ==
    /\ Finished
    /\ ta_results # None
    /\ DictKeys(ta_results[1]) = <<EC2, EBS>>
    /\ DictKeys(DictGet(ta_results[1], EBS)) = <<GW, GP2>>
    /\ Len(SetCalls) = 3

\* When update_limits ended with one of the four failures, nothing was applied.
C9_NothingApplied ==
    (/\ call = "update_limits"
     /\ outcome.status = "raised"
     /\ outcome.at \in {"connect", "list", "fetch", "int"})
    => /\ pc = "idle"
       /\ SetCalls = <<>>
       /\ Untouched(services)
       /\ outcome.at = "connect" => conn = None

\* Some retained row has a Limit Amount that is no integer.
MalformedRetained ==
    \E i \in Retained : ~WellFormed(RowField(flagged[i], "Limit Amount"))

\* The step at which one of the four failures happens ends update_limits
\* with the error.
C9_Propagates ==
    /\ (pc = "connect" /\ connectCalls' # connectCalls /\ conn' = None)
          => (outcome' = Raised("BotoServerError", "connect") /\ pc' = "idle")
    /\ (Len(trace') = Len(trace) + 1 /\ ~trace'[Len(trace')].ok
           /\ ~IsSetEvent(trace'[Len(trace')]))
          => (outcome'.status = "raised" /\ pc' = "idle")
    /\ (pc = "fetched" /\ MalformedRetained)
          => (outcome' = Raised("ValueError", "int") /\ pc' = "idle")

\* C9: a failed session establishment, check listing or result fetch, and a
\* malformed Limit Amount in a retained row, end update_limits with the error;
\* then no _set_ta_limit call has been made, the registry is as it was passed
\* in, and after a failed establishment there is no session.
C9_FailuresPropagate == []C9_NothingApplied /\ [][C9_Propagates]_vars

\* C9 witness: update_limits ended with the ValueError of int().
C9_Witness ==
    /\ call = "update_limits"
    /\ outcome = Raised("ValueError", "int")
    /\ Fetches # {}

\* C10: within one update_limits call the session exists when the checks are
\* listed, the result is fetched at most once, after a listing that answered,
\* with the identifier the locator returned, and every _set_ta_limit call
\* comes after a fetch that answered.
C10_StageOrder ==
    /\ Listings # {} => conn # None
    /\ Cardinality(Listings) <= 1
    /\ Cardinality(Fetches) <= 1
    /\ \A f \in Fetches :
          /\ \E l \in Listings : l < f /\ trace[l].ok
          /\ tmp # None
          /\ trace[f].arg = <<tmp[1].id>>
    /\ \A k \in 1..Len(trace) :
          IsSetEvent(trace[k]) => \E f \in Fetches : f < k /\ trace[f].ok

\* C10 witness: update_limits returned after fetching the second check's
\* result and calling _set_ta_limit.
C10_Witness ==
    /\ call = "update_limits"
    /\ Finished
    /\ outcome.status = "returned"
    /\ tmp # None
    /\ tmp[1].id = "c2"
    /\ Fetches # {}
    /\ SetCalls # <<>>

====
